---- MODULE Spec2Model ----
(***************************************************************************)
(* Model of the upload reconciler of the QBO attachment migration demo     *)
(* (src/src/qbo_attach_demo.py) together with the fake upload operation    *)
(* (src/src/fake_qbo_api.py).                                              *)
(*                                                                         *)
(* A CSV file is a sequence of lines; a line is a sequence of field values *)
(* plus a flag saying whether its line terminator reached the file.  The   *)
(* three output files are opened in append mode and written through a      *)
(* buffer that reaches the disk when the file handle is closed.            *)
(***************************************************************************)
EXTENDS Integers, Sequences, FiniteSets, TLC

\* ------------------------------------------------------------------ bounds
MaxRows == 2      \* longest verified-records input
MaxRuns == 2      \* number of reconciler invocations in a behaviour
MaxLedger == 3    \* longest ledger the scan is tried on, in records

\* --------------------------------------------------------------- constants
NoFile == [exists |-> FALSE, lines |-> <<>>]   \* path.exists() is False
File(lines) == [exists |-> TRUE, lines |-> lines]
None   == "<None>"          \* Python's None, as csv.DictReader's restval

RunLog == "qbo_attach_runlog.csv"
ErrLog == "qbo_attach_errors.csv"
DupLog == "qbo_attach_dups.csv"
LogFiles == {RunLog, ErrLog, DupLog}

Procs == {1, 2}             \* operating-system processes that may run main()
SeqProcs == {1}             \* externally serialised invocation: one at a time

run_fields ==
    << "ts", "legacy_txnid_norm", "legacy_entity_type", "raw_legacy_id",
       "qbo_entity_type", "qbo_entity_id", "file_name", "file_path",
       "status_code", "error", "intuit_tid", "outcome" >>

\* The rows mapping_verifier can write for a small inventory: two files of
\* the same target entity with the same file name (in different folders),
\* a file of that name of another entity, and a file without mapping.
VRow(norm, etype, raw, fname, fpath, qtype, qid, status) ==
    [ legacy_txnid_norm |-> norm, legacy_entity_type |-> etype,
      raw_legacy_id |-> raw, file_name |-> fname, file_path |-> fpath,
      qbo_entity_type |-> qtype, qbo_entity_id |-> qid, status |-> status ]

VerifiedRows ==
    { VRow("ABC123", "Bill", "80ABC123", "a.txt", "Bill/80ABC123/a.txt", "Bill", "1001", "ok"),
      VRow("ABC123", "Bill", "80ABC123", "a.txt", "Bill/80ABC123/x/a.txt", "Bill", "1001", "ok"),
      VRow("DEF456", "Invoice", "80DEF456", "a.txt", "Invoice/80DEF456/a.txt", "Invoice", "1002", "ok"),
      VRow("MISSING", "Bill", "80MISSING", "c.txt", "Bill/80MISSING/c.txt", "", "", "missing_mapping") }

\* The idempotency key of a verified row, as the data model defines it.
IdKey(r) == << r.qbo_entity_id, r.file_name >>

Keys == { IdKey(r) : r \in VerifiedRows }

VerifiedInputs == UNION { [1..n -> VerifiedRows] : n \in 0..MaxRows }

\* ------------------------------------------------------------------- state
VARIABLES
    verified,   \* mapping_verification_log.csv: NoFile or its rows
    disk,       \* the three log files on disk: NoFile or a sequence of lines
    attached,   \* target system: how often the upload returned 200, per key
    started,    \* number of invocations of main() so far
    pc,         \* per process: position in main()
    prior,      \* per process: prior_successes
    pos,        \* per process: index of the next verified row to read
    wbuf,       \* per process: written but not yet flushed lines, per file
    count,      \* per process: total / uploaded / skipped / failed
    summary,    \* the summary line printed by the last completed run
    disk0,      \* history: the log files on disk when the run loaded the ledger
    runLog,     \* history: what the run did for each candidate met so far
    done,       \* history: runLog, disk0 and the disk after the close, per completed run
    overlap,    \* history: a run has started while another one was under way
    inventory,  \* attachments_inventory.csv: its rows
    mapping,    \* mapping_export.csv: its rows
    raw_id,     \* a raw legacy identifier handed to normalize_legacy_id
    norm_ids    \* the results of normalising it, and of normalising the result

\* The state of the stages before the reconciler.
upstream == << inventory, mapping, raw_id, norm_ids >>

vars == << verified, disk, attached, started, pc, prior, pos, wbuf, count,
           summary, disk0, runLog, done, overlap, upstream >>

\* ----------------------------------------------------------- CSV plumbing
Line(fields) == [f |-> fields, nl |-> TRUE]

HeaderLine == Line(run_fields)

\* csv.DictWriter.writerow: the record's values in fieldnames order.
WriteRow(record) == Line([i \in 1..Len(run_fields) |-> record[run_fields[i]]])

\* Bytes appended to a file land after its last byte: when the last line of
\* the file has no terminator, the first field written continues its last
\* field.
Glue(a, b) == IF a = "" THEN b ELSE IF b = "" THEN a ELSE "<garbled>"

AppendLine(lines, l) ==
    IF lines # <<>> /\ ~lines[Len(lines)].nl
    THEN LET last == lines[Len(lines)]
             n == Len(last.f)
             joined == IF n = 0 THEN l.f
                       ELSE SubSeq(last.f, 1, n - 1)
                            \o << Glue(last.f[n], Head(l.f)) >>
                            \o Tail(l.f)
         IN  [lines EXCEPT ![Len(lines)] = [f |-> joined, nl |-> l.nl]]
    ELSE Append(lines, l)

\* Mutant: the file is opened for writing, not for appending.
Overwrite(lines, ls) == ls

RECURSIVE AppendAll(_, _)
AppendAll(lines, ls) ==
    IF ls = <<>> THEN lines ELSE AppendAll(AppendLine(lines, Head(ls)), Tail(ls))

\* csv.DictReader: dict(zip(fieldnames, row)), a missing trailing field is
\* None, and dict.get(name, default) gives default only for an absent key.
RECURSIVE LastIndex(_, _, _)
LastIndex(names, name, n) ==
    IF n = 0 THEN 0
    ELSE IF names[n] = name THEN n ELSE LastIndex(names, name, n - 1)

DictGet(fieldnames, row, name, default) ==
    LET i == LastIndex(fieldnames, name, Len(fieldnames))
    IN  IF i = 0 THEN default
        ELSE IF i > Len(row) THEN None
        ELSE row[i]

\* ---------------------------------------------------- _load_prior_successes
\* Mutant: every outcome but error counts as done.
OutcomeIsNotError(outcome) == outcome # "error"

\* The test a ledger row must pass to contribute its key.
OutcomeIsSuccess(outcome) == outcome = "success"

RECURSIVE ScanRows(_, _, _)
ScanRows(fieldnames, rows, successes) ==
    IF rows = <<>> THEN successes
    ELSE LET row == Head(rows).f
             hit == OutcomeIsSuccess(DictGet(fieldnames, row, "outcome", None))
             key == << DictGet(fieldnames, row, "qbo_entity_id", ""),
                       DictGet(fieldnames, row, "file_name", "") >>
         IN  ScanRows(fieldnames, Tail(rows),
                      IF hit THEN successes \cup {key} ELSE successes)

\* Mutant: the most recent row of a key decides.
RECURSIVE ScanRowsLatest(_, _, _)
ScanRowsLatest(fieldnames, rows, successes) ==
    IF rows = <<>> THEN successes
    ELSE LET row == Head(rows).f
             hit == DictGet(fieldnames, row, "outcome", None) = "success"
             key == << DictGet(fieldnames, row, "qbo_entity_id", ""),
                       DictGet(fieldnames, row, "file_name", "") >>
         IN  ScanRowsLatest(fieldnames, Tail(rows),
                            IF hit THEN successes \cup {key} ELSE successes \ {key})

load_latest_outcome(file) ==
    IF ~file.exists THEN {}
    ELSE IF file.lines = <<>> THEN {}
    ELSE ScanRowsLatest(Head(file.lines).f, Tail(file.lines), {})

\* Mutant: every record of the ledger contributes its key, whatever its outcome.
load_attempted_keys(file) ==
    IF ~file.exists THEN {}
    ELSE IF file.lines = <<>> THEN {}
    ELSE { << DictGet(Head(file.lines).f, file.lines[i].f, "qbo_entity_id", ""),
              DictGet(Head(file.lines).f, file.lines[i].f, "file_name", "") >> :
             i \in 2..Len(file.lines) }

\* Mutant: the ledger is not consulted.
load_nothing(file) == {}

load_prior_successes(file) ==
    IF ~file.exists THEN {}
    ELSE IF file.lines = <<>> THEN {}
    ELSE ScanRows(Head(file.lines).f, Tail(file.lines), {})

\* ------------------------------------------------------------ _open_writer
\* What the open leaves on disk and in the writer's buffer.
OpenedFile(file) == IF ~file.exists THEN File(<<>>) ELSE file

\* Mutant: the header row is never written.
OpenedBufferNoHeader(file) == <<>>

OpenedBuffer(file) == IF ~file.exists THEN << HeaderLine >> ELSE <<>>

\* ------------------------------------------------------------- attach_file
FakeQboResponse(code, tid, err) ==
    [status_code |-> code, intuit_tid |-> tid, error |-> err]

attach_file(entity_type, entity_id, file_path, isFile, randomFail) ==
    IF ~isFile THEN FakeQboResponse(404, None, "file not found")
    ELSE IF randomFail THEN FakeQboResponse(500, None, "synthetic API failure")
    ELSE FakeQboResponse(200, "1-tid", None)

\* str(resp.status_code)
CodeStr(code) ==
    CASE code = 200 -> "200"
      [] code = 404 -> "404"
      [] code = 500 -> "500"
      [] OTHER -> "other"

OrEmpty(v) == IF v = None THEN "" ELSE v

\* ---------------------------------------------------------- main: records
KeyOf(row) == << row.qbo_entity_id, row.file_name >>

BaseRecord(row) ==
    [ ts |-> "ts",
      legacy_txnid_norm |-> row.legacy_txnid_norm,
      legacy_entity_type |-> row.legacy_entity_type,
      raw_legacy_id |-> row.raw_legacy_id,
      qbo_entity_type |-> row.qbo_entity_type,
      qbo_entity_id |-> row.qbo_entity_id,
      file_name |-> row.file_name,
      file_path |-> row.file_path ]

\* Mutant: the skip record repeats the status code of the first upload.
SkipRecordWithCode(row) ==
    BaseRecord(row) @@
    [ status_code |-> "200", error |-> "", intuit_tid |-> "",
      outcome |-> "skipped_already_uploaded" ]

SkipRecord(row) ==
    BaseRecord(row) @@
    [ status_code |-> "", error |-> "", intuit_tid |-> "",
      outcome |-> "skipped_already_uploaded" ]

\* Mutant: a missing file is recorded as a plain error.
OutcomeOfNo404(code) == IF code = 200 THEN "success" ELSE "error"

OutcomeOf(code) ==
    IF code = 200 THEN "success"
    ELSE IF code = 404 THEN "file_missing"
    ELSE "error"

AttemptRecord(row, resp) ==
    BaseRecord(row) @@
    [ status_code |-> CodeStr(resp.status_code),
      error |-> OrEmpty(resp.error),
      intuit_tid |-> OrEmpty(resp.intuit_tid),
      outcome |-> OutcomeOf(resp.status_code) ]

\* Mutant: only plain errors reach the errors-only log.
AttemptTargetsErrorOnly(outcome) ==
    IF outcome = "error" THEN {RunLog, ErrLog} ELSE {RunLog}

\* Which writers main() hands an attempt record to.
AttemptTargets(outcome) ==
    IF outcome # "success" THEN {RunLog, ErrLog} ELSE {RunLog}

\* Mutant: a skipped record is not copied to the duplicates log.
SkipTargetsLedgerOnly == {RunLog}

\* Which writers main() hands a skipped record to.
SkipTargets == {RunLog, DupLog}

\* Mutant: the key of a fresh success is not added to the set.
RemembersNothing(outcome) == FALSE

\* Whether main() remembers the key after an attempt with this outcome.
Remembers(outcome) == outcome = "success"

\* Mutant: no key is ever taken for uploaded.
NeverUploaded(key, successes) == FALSE

\* Whether main() takes the already-uploaded branch for this key.
AlreadyUploaded(key, successes) == key \in successes

\* Mutant: the status column is not looked at.
AlwaysCandidate(row) == TRUE

\* Whether main() processes the verified row at all.
IsCandidate(row) == row.status = "ok"

\* Mutant: a failed attempt is tried again.
AfterAttemptRetry(i, outcome) == IF outcome = "error" THEN i ELSE i + 1

\* Mutant: a failed upload ends the run.
AfterAttemptStop(i, outcome) ==
    IF outcome = "success" THEN i + 1 ELSE Len(verified.lines) + 1

\* The row main() reads after an attempt: the for loop moves on whatever the
\* outcome was.
AfterAttempt(i, outcome) == i + 1

ZeroCount == [total |-> 0, uploaded |-> 0, skipped |-> 0, failed |-> 0]

\* The written records of a ledger file, whatever a reader makes of them.
IsSuccessRow(l) ==
    /\ l.f # run_fields
    /\ Len(l.f) = Len(run_fields)
    /\ l.f[12] = "success"

LinesOf(file) == file.lines

SuccessKeysIn(file) ==
    { << LinesOf(file)[i].f[6], LinesOf(file)[i].f[7] >> :
        i \in { j \in 1..Len(LinesOf(file)) : IsSuccessRow(LinesOf(file)[j]) } }

\* -------------------------------------------------------------------- Init
\* Python's None where a string of characters is expected.
NoId == << None >>

\* The earlier stages are not under study: their files are left aside.
UpstreamIdle ==
    /\ inventory = <<>>
    /\ mapping = <<>>
    /\ raw_id = NoId
    /\ norm_ids = <<>>

Init ==
    /\ verified \in { File(rows) : rows \in VerifiedInputs } \cup {NoFile}
    /\ disk = [n \in LogFiles |-> NoFile]
    /\ attached = [k \in Keys |-> 0]
    /\ started = 0
    /\ pc = [p \in Procs |-> "idle"]
    /\ prior = [p \in Procs |-> {}]
    /\ pos = [p \in Procs |-> 1]
    /\ wbuf = [p \in Procs |-> [n \in LogFiles |-> <<>>]]
    /\ count = [p \in Procs |-> ZeroCount]
    /\ summary = ZeroCount
    /\ disk0 = [p \in Procs |-> [n \in LogFiles |-> NoFile]]
    /\ runLog = [p \in Procs |-> <<>>]
    /\ done = <<>>
    /\ overlap = FALSE
    /\ UpstreamIdle

\* ----------------------------------------------------------------- actions
NoneActive == \A q \in Procs : pc[q] = "idle"

AbortAfterOpen(p) ==
    /\ pc[p] = "idle"
    /\ started < MaxRuns
    /\ ~verified.exists
    /\ started' = started + 1
    /\ disk' = [n \in LogFiles |-> OpenedFile(disk[n])]
    /\ UNCHANGED << upstream, overlap, verified, attached, pc, prior, pos, wbuf, count,
                    summary, disk0, runLog, done >>

\* main(), lines 75-78: the verified-records file is absent.
Abort(p) ==
    /\ pc[p] = "idle"
    /\ started < MaxRuns
    /\ ~verified.exists
    /\ started' = started + 1
    /\ UNCHANGED << upstream, overlap, verified, disk, attached, pc, prior, pos, wbuf, count,
                    summary, disk0, runLog, done >>

\* main(), lines 75-80: the idempotency set is loaded once.
LoadPrior(p) ==
    /\ pc[p] = "idle"
    /\ started < MaxRuns
    /\ verified.exists
    /\ started' = started + 1
    /\ prior' = [prior EXCEPT ![p] = load_prior_successes(disk[RunLog])]
    /\ pc' = [pc EXCEPT ![p] = "loaded"]
    /\ pos' = [pos EXCEPT ![p] = 1]
    /\ count' = [count EXCEPT ![p] = ZeroCount]
    /\ disk0' = [disk0 EXCEPT ![p] = disk]
    /\ runLog' = [runLog EXCEPT ![p] = <<>>]
    /\ overlap' = (overlap \/ \E q \in Procs \ {p} : pc[q] # "idle")
    /\ UNCHANGED << upstream, verified, disk, attached, wbuf, summary, done >>

\* main(), lines 97-99: the three writers are opened in append mode.
OpenWriters(p) ==
    /\ pc[p] = "loaded"
    /\ disk' = [n \in LogFiles |-> OpenedFile(disk[n])]
    /\ wbuf' = [wbuf EXCEPT ![p] = [n \in LogFiles |-> OpenedBuffer(disk[n])]]
    /\ pc' = [pc EXCEPT ![p] = "loop"]
    /\ UNCHANGED << upstream, overlap, verified, attached, started, prior, pos, count, summary,
                    disk0, runLog, done >>

HasRow(p) == pc[p] = "loop" /\ pos[p] <= Len(verified.lines)

Write(buf, targets, line) ==
    [n \in LogFiles |-> IF n \in targets THEN Append(buf[n], line) ELSE buf[n]]

\* main(), lines 109-110: a row whose status is not ok is passed over.
SkipNotOk(p) ==
    /\ HasRow(p)
    /\ ~IsCandidate(verified.lines[pos[p]])
    /\ pos' = [pos EXCEPT ![p] = @ + 1]
    /\ UNCHANGED << upstream, overlap, verified, disk, attached, started, pc, prior, wbuf, count,
                    summary, disk0, runLog, done >>

\* main(), lines 112-145: the key is in the idempotency set.
SkipDuplicate(p) ==
    /\ HasRow(p)
    /\ LET row == verified.lines[pos[p]]
           key == KeyOf(row)
       IN  /\ IsCandidate(row)
           /\ AlreadyUploaded(key, prior[p])
           /\ wbuf' = [wbuf EXCEPT ![p] = Write(@, SkipTargets, WriteRow(SkipRecord(row)))]
           /\ count' = [count EXCEPT ![p].total = @ + 1, ![p].skipped = @ + 1]
           /\ runLog' = [runLog EXCEPT ![p] = Append(@,
                 [ idx |-> pos[p], key |-> IdKey(row), invoked |-> FALSE, code |-> 0,
                   outcome |-> "skipped_already_uploaded" ])]
    /\ pos' = [pos EXCEPT ![p] = @ + 1]
    /\ UNCHANGED << upstream, overlap, verified, disk, attached, started, pc, prior, summary,
                    disk0, done >>

\* main(), lines 112-131 and 147-175: the upload is attempted.
Upload(p) ==
    /\ HasRow(p)
    /\ LET row == verified.lines[pos[p]]
           key == KeyOf(row)
       IN  /\ IsCandidate(row)
           /\ ~AlreadyUploaded(key, prior[p])
           /\ \E isFile \in BOOLEAN, randomFail \in BOOLEAN :
                LET resp == attach_file(row.qbo_entity_type, row.qbo_entity_id,
                                        row.file_path, isFile, randomFail)
                    outcome == OutcomeOf(resp.status_code)
                IN  /\ attached' = [attached EXCEPT ![IdKey(row)] =
                                      IF resp.status_code = 200 THEN @ + 1 ELSE @]
                    /\ wbuf' = [wbuf EXCEPT ![p] =
                          Write(@, AttemptTargets(outcome), WriteRow(AttemptRecord(row, resp)))]
                    /\ prior' = [prior EXCEPT ![p] =
                          IF Remembers(outcome) THEN @ \cup {key} ELSE @]
                    /\ count' = [count EXCEPT
                          ![p].total = @ + 1,
                          ![p].uploaded = IF resp.status_code = 200 THEN @ + 1 ELSE @,
                          ![p].failed = IF resp.status_code = 200 THEN @ ELSE @ + 1]
                    /\ runLog' = [runLog EXCEPT ![p] = Append(@,
                          [ idx |-> pos[p], key |-> IdKey(row), invoked |-> TRUE,
                            code |-> resp.status_code, outcome |-> outcome ])]
                    /\ pos' = [pos EXCEPT ![p] = AfterAttempt(@, outcome)]
    /\ UNCHANGED << upstream, overlap, verified, disk, started, pc, summary, disk0, done >>

\* main(), lines 177-185: the handles are closed, which flushes the buffers.
Close(p) ==
    /\ pc[p] = "loop"
    /\ pos[p] > Len(verified.lines)
    /\ disk' = [n \in LogFiles |-> File(AppendAll(disk[n].lines, wbuf[p][n]))]
    /\ wbuf' = [wbuf EXCEPT ![p] = [n \in LogFiles |-> <<>>]]
    /\ pc' = [pc EXCEPT ![p] = "idle"]
    /\ summary' = count[p]
    /\ done' = Append(done, [log |-> runLog[p], disk0 |-> disk0[p], disk1 |-> disk'])
    /\ UNCHANGED << upstream, overlap, verified, attached, started, prior, pos, count, disk0, runLog >>

Step(p) ==
    \/ Abort(p)
    \/ LoadPrior(p)
    \/ OpenWriters(p)
    \/ SkipNotOk(p)
    \/ SkipDuplicate(p)
    \/ Upload(p)
    \/ Close(p)

\* Non-overlapping, completed runs: the next invocation starts after the
\* previous one has returned.
Next == \E p \in SeqProcs : Step(p)

Spec == Init /\ [][Next]_vars

\* How often the upload of a key may fail before it returns 200.
MaxFails == 1

\* The failed uploads of a key so far, in the completed runs and in the run
\* under way.
FailedIn(log, k) ==
    Cardinality({ i \in 1..Len(log) :
                    log[i].key = k /\ log[i].invoked /\ log[i].code # 200 })

RECURSIVE FailedInRuns(_, _)
FailedInRuns(runs, k) ==
    IF runs = <<>> THEN 0
    ELSE FailedIn(Head(runs).log, k) + FailedInRuns(Tail(runs), k)

FailedUploads(p, k) ==
    FailedInRuns(done, k) + (IF pc[p] = "idle" THEN 0 ELSE FailedIn(runLog[p], k))

\* The upload under the assumption that, invoked repeatedly for a key, it
\* eventually returns 200: it fails at most MaxFails times per key.
UploadFair(p) ==
    /\ Upload(p)
    /\ attached' = attached
         => FailedUploads(p, IdKey(verified.lines[pos[p]])) < MaxFails

StepLive(p) ==
    \/ Abort(p)
    \/ LoadPrior(p)
    \/ OpenWriters(p)
    \/ SkipNotOk(p)
    \/ SkipDuplicate(p)
    \/ UploadFair(p)
    \/ Close(p)

NextLive == \E p \in SeqProcs : StepLive(p)

\* Non-overlapping completed runs of a pipeline that is invoked again as long
\* as MaxRuns allows, each run going on to its end.
SpecLive == Init /\ [][NextLive]_vars /\ WF_vars(NextLive)

\* A run killed before its handles are closed: of what it wrote, only what
\* the buffers had already passed to the operating system is in the files.
Crash(p) ==
    /\ pc[p] \in {"loaded", "loop"}
    /\ \E kept \in [LogFiles -> 0..MaxRows + 1] :
          /\ \A n \in LogFiles : kept[n] <= Len(wbuf[p][n])
          /\ disk' = [n \in LogFiles |->
                        IF disk[n].exists
                        THEN File(AppendAll(disk[n].lines, SubSeq(wbuf[p][n], 1, kept[n])))
                        ELSE disk[n]]
    /\ wbuf' = [wbuf EXCEPT ![p] = [n \in LogFiles |-> <<>>]]
    /\ pc' = [pc EXCEPT ![p] = "idle"]
    /\ UNCHANGED << upstream, overlap, verified, attached, started, prior, pos, count, summary,
                    disk0, runLog, done >>

\* Non-overlapping runs, each of which either completes or is killed.
NextCrash == \E p \in SeqProcs : Step(p) \/ Crash(p)

SpecCrash == Init /\ [][NextCrash]_vars

\* Where a kill can cut the record being written to the ledger: after this
\* many of its fields, the separator that follows not yet written.
Cuts == {1, 7}

Truncated(l, cut) == [f |-> SubSeq(l.f, 1, cut), nl |-> FALSE]

\* A run killed while a record is on its way to the ledger: the records before
\* it are in the file, and of the record itself only its first fields.  The
\* other two logs are never read back; they get the whole records before the
\* kill or nothing.
CrashMidWrite(p) ==
    /\ pc[p] = "loop"
    /\ \E kept \in 0..MaxRows, cut \in Cuts, others \in BOOLEAN :
          /\ kept < Len(wbuf[p][RunLog])
          /\ disk' = [n \in LogFiles |->
                IF n = RunLog
                THEN File(AppendAll(disk[n].lines,
                          Append(SubSeq(wbuf[p][n], 1, kept),
                                 Truncated(wbuf[p][n][kept + 1], cut))))
                ELSE IF others THEN File(AppendAll(disk[n].lines, wbuf[p][n]))
                ELSE disk[n]]
    /\ wbuf' = [wbuf EXCEPT ![p] = [n \in LogFiles |-> <<>>]]
    /\ pc' = [pc EXCEPT ![p] = "idle"]
    /\ UNCHANGED << upstream, overlap, verified, attached, started, prior, pos, count, summary,
                    disk0, runLog, done >>

NextTrunc == \E p \in SeqProcs : Step(p) \/ CrashMidWrite(p)

SpecTrunc == Init /\ [][NextTrunc]_vars

\* Between two invocations the verification log is removed (the verifier's
\* output is an ordinary file of the working directory).
InputRemoved ==
    /\ NoneActive
    /\ verified.exists
    /\ verified' = NoFile
    /\ UNCHANGED << upstream, overlap, disk, attached, started, pc, prior, pos, wbuf, count,
                    summary, disk0, runLog, done >>

NextInput == Next \/ InputRemoved

SpecInput == Init /\ [][NextInput]_vars

\* ------------------------------------------------------- mapping_verifier
MaxInv == 2
MaxMap == 2

\* Rows of attachments_inventory.csv, as build_attachment_inventory writes
\* them: two attachments of a mapped bill id, one of them filed under another
\* entity type, and one of an id that has no mapping.
IRow(norm, etype, raw, fname, fpath) ==
    [ legacy_txnid_norm |-> norm, legacy_entity_type |-> etype,
      raw_legacy_id |-> raw, file_name |-> fname, file_path |-> fpath ]

InventoryRows ==
    { IRow("ABC123", "Bill", "80ABC123", "a.txt", "Bill/80ABC123/a.txt"),
      IRow("ABC123", "Invoice", "80ABC123", "b.txt", "Invoice/80ABC123/b.txt"),
      IRow("MISSING", "Bill", "80MISSING", "c.txt", "Bill/80MISSING/c.txt") }

\* Rows of mapping_export.csv; the first two have the same join key.
MRow(norm, etype, qtype, qid) ==
    [ legacy_txnid_norm |-> norm, legacy_entity_type |-> etype,
      qbo_entity_type |-> qtype, qbo_entity_id |-> qid ]

MappingRows ==
    { MRow("ABC123", "Bill", "Bill", "1001"),
      MRow("ABC123", "Bill", "Bill", "1009"),
      MRow("DEF456", "Invoice", "Invoice", "1002") }

\* Mutant: the join ignores the entity type.
JoinKeyIdOnly(row) == << row.legacy_txnid_norm, "" >>

\* key = (row["legacy_txnid_norm"], row["legacy_entity_type"])
JoinKey(row) == << row.legacy_txnid_norm, row.legacy_entity_type >>

\* _load_mapping: a dict from join key to row; a later row of the same key
\* replaces an earlier one.
RECURSIVE load_mapping(_, _)
load_mapping(rows, dict) ==
    IF rows = <<>> THEN dict
    ELSE load_mapping(Tail(rows),
                      [k \in DOMAIN dict \cup {JoinKey(Head(rows))} |->
                          IF k = JoinKey(Head(rows)) THEN Head(rows) ELSE dict[k]])

\* The body of the loop of mapping_verifier.main for one inventory row.
verify_row(row, dict) ==
    IF JoinKey(row) \in DOMAIN dict
    THEN [ legacy_txnid_norm |-> row.legacy_txnid_norm,
           legacy_entity_type |-> row.legacy_entity_type,
           raw_legacy_id |-> row.raw_legacy_id,
           file_name |-> row.file_name,
           file_path |-> row.file_path,
           qbo_entity_type |-> dict[JoinKey(row)].qbo_entity_type,
           qbo_entity_id |-> dict[JoinKey(row)].qbo_entity_id,
           status |-> "ok",
           reason |-> "" ]
    ELSE [ legacy_txnid_norm |-> row.legacy_txnid_norm,
           legacy_entity_type |-> row.legacy_entity_type,
           raw_legacy_id |-> row.raw_legacy_id,
           file_name |-> row.file_name,
           file_path |-> row.file_path,
           qbo_entity_type |-> "",
           qbo_entity_id |-> "",
           status |-> "missing_mapping",
           reason |-> "no mapping for (legacy_txnid_norm, legacy_entity_type)" ]

verify_rows(rows, dict) == [i \in 1..Len(rows) |-> verify_row(rows[i], dict)]

\* mapping_verifier.main: the verification log is rewritten from the
\* inventory and the mapping export.
Verify ==
    /\ verified' = File(verify_rows(inventory, load_mapping(mapping, << >>)))
    /\ UNCHANGED << inventory, mapping, raw_id, norm_ids, overlap, disk, attached,
                    started, pc, prior, pos, wbuf, count, summary, disk0, runLog, done >>

\* The reconciler has not been run: no log file, no process in main().
ReconcilerIdle ==
    /\ disk = [n \in LogFiles |-> NoFile]
    /\ attached = [k \in Keys |-> 0]
    /\ started = 0
    /\ pc = [p \in Procs |-> "idle"]
    /\ prior = [p \in Procs |-> {}]
    /\ pos = [p \in Procs |-> 1]
    /\ wbuf = [p \in Procs |-> [n \in LogFiles |-> <<>>]]
    /\ count = [p \in Procs |-> ZeroCount]
    /\ summary = ZeroCount
    /\ disk0 = [p \in Procs |-> [n \in LogFiles |-> NoFile]]
    /\ runLog = [p \in Procs |-> <<>>]
    /\ done = <<>>
    /\ overlap = FALSE

InitVerify ==
    /\ inventory \in UNION { [1..n -> InventoryRows] : n \in 0..MaxInv }
    /\ mapping \in UNION { [1..n -> MappingRows] : n \in 0..MaxMap }
    /\ raw_id = NoId
    /\ norm_ids = <<>>
    /\ verified = NoFile
    /\ ReconcilerIdle

NextVerify == Verify

SpecVerify == InitVerify /\ [][NextVerify]_vars

\* ---------------------------------------------------- normalize_legacy_id
\* A string is a sequence of characters; these are the characters that the
\* function tells apart: the two of the prefix, a lower-case and an
\* upper-case letter, and white space.
Chars == {"8", "0", "a", "A", " "}

MaxStr == 4
MaxApply == 2

Strings == UNION { [1..n -> Chars] : n \in 0..MaxStr }

\* str.strip()
RECURSIVE LStrip(_)
LStrip(s) == IF s # <<>> /\ Head(s) = " " THEN LStrip(Tail(s)) ELSE s

RECURSIVE RStrip(_)
RStrip(s) ==
    IF s # <<>> /\ s[Len(s)] = " " THEN RStrip(SubSeq(s, 1, Len(s) - 1)) ELSE s

Strip(s) == RStrip(LStrip(s))

\* str.upper()
SameCase(s) == s

Upper(s) == [i \in 1..Len(s) |-> IF s[i] = "a" THEN "A" ELSE s[i]]

\* Mutant: one character of the prefix is tested, two are removed.
StartsWith8(s) == Len(s) >= 1 /\ s[1] = "8"

\* raw.startswith("80")
StartsWith80(s) == Len(s) >= 2 /\ s[1] = "8" /\ s[2] = "0"

normalize_legacy_id(raw) ==
    IF raw = NoId THEN <<>>
    ELSE LET stripped == Strip(raw)
             rest == IF StartsWith80(stripped)
                     THEN SubSeq(stripped, 3, Len(stripped))
                     ELSE stripped
         IN  Upper(rest)

\* normalize_legacy_id is applied to the raw id, then to its own result.
Normalize ==
    /\ Len(norm_ids) < MaxApply
    /\ norm_ids' = Append(norm_ids,
                          normalize_legacy_id(IF norm_ids = <<>> THEN raw_id
                                              ELSE norm_ids[Len(norm_ids)]))
    /\ UNCHANGED << inventory, mapping, raw_id, verified, overlap, disk, attached,
                    started, pc, prior, pos, wbuf, count, summary, disk0, runLog, done >>

InitNorm ==
    /\ raw_id \in Strings \cup {NoId}
    /\ norm_ids = <<>>
    /\ inventory = <<>>
    /\ mapping = <<>>
    /\ verified = NoFile
    /\ ReconcilerIdle

NextNorm == Normalize

SpecNorm == InitNorm /\ [][NextNorm]_vars

\* Invocations that nothing serialises: a run may start while another one is
\* under way.
NextConc == \E p \in Procs : Step(p)

\* Longest verified-records input of the overlapping runs.
MaxConcRows == 1

InitConc == Init /\ Len(verified.lines) <= MaxConcRows

SpecConc == InitConc /\ [][NextConc]_vars

\* ---------------------------------------- the ledger scan on its own
\* The attempt records main() can write for the verified rows above, and the
\* ledgers made of them: runs, overlapping ones included, leave the records
\* in any order, but a skipped record always follows a success record of its
\* key.
Responses ==
    { attach_file("", "", "", isFile, randomFail) :
        isFile \in BOOLEAN, randomFail \in BOOLEAN }

LedgerRecords ==
    { WriteRow(AttemptRecord(r, resp)) :
        r \in { x \in VerifiedRows : IsCandidate(x) }, resp \in Responses }
    \cup { WriteRow(SkipRecord(r)) : r \in { x \in VerifiedRows : IsCandidate(x) } }

SkipFollowsSuccess(rows) ==
    \A j \in 1..Len(rows) :
        rows[j].f[12] = "skipped_already_uploaded"
        => \E i \in 1..(j - 1) :
              /\ rows[i].f[12] = "success"
              /\ rows[i].f[6] = rows[j].f[6]
              /\ rows[i].f[7] = rows[j].f[7]

Ledgers ==
    { rows \in UNION { [1..n -> LedgerRecords] : n \in 0..MaxLedger } :
        SkipFollowsSuccess(rows) }

InitLoad ==
    /\ verified = File(<<>>)
    /\ \/ disk = [n \in LogFiles |-> NoFile]
       \/ \E rows \in Ledgers :
             disk = [n \in LogFiles |->
                       File(<< HeaderLine >> \o
                            SelectSeq(rows, LAMBDA l : l.f[12] \in
                               CASE n = RunLog -> {"success", "file_missing", "error",
                                                   "skipped_already_uploaded"}
                                 [] n = ErrLog -> {"file_missing", "error"}
                                 [] n = DupLog -> {"skipped_already_uploaded"}))]
    /\ attached = [k \in Keys |-> 0]
    /\ started = 0
    /\ pc = [p \in Procs |-> "idle"]
    /\ prior = [p \in Procs |-> {}]
    /\ pos = [p \in Procs |-> 1]
    /\ wbuf = [p \in Procs |-> [n \in LogFiles |-> <<>>]]
    /\ count = [p \in Procs |-> ZeroCount]
    /\ summary = ZeroCount
    /\ disk0 = [p \in Procs |-> [n \in LogFiles |-> NoFile]]
    /\ runLog = [p \in Procs |-> <<>>]
    /\ done = <<>>
    /\ overlap = FALSE
    /\ UpstreamIdle

NextLoad == \E p \in SeqProcs : LoadPrior(p)

SpecLoad == InitLoad /\ [][NextLoad]_vars

\* ------------------------------------------------ views used by the claims
IsPrefix(a, b) == Len(a) <= Len(b) /\ SubSeq(b, 1, Len(a)) = a

\* The records among the lines of a file: every line but the header row.
DataRows(lines) == SelectSeq(lines, LAMBDA l : l.f # run_fields)

\* What a completed run appended to a file.
Appended(d, n) ==
    SubSeq(d.disk1[n].lines, Len(d.disk0[n].lines) + 1, Len(d.disk1[n].lines))

\* One view per run: its candidates' events, the records it wrote to each
\* file (for a completed run: the records it appended), and the ledger it
\* loaded.
RunViews ==
    { [ log |-> runLog[p],
        rows |-> [n \in LogFiles |-> DataRows(wbuf[p][n])],
        ledger0 |-> disk0[p][RunLog],
        complete |-> FALSE ] : p \in { q \in Procs : pc[q] = "loop" } }
    \cup
    { [ log |-> done[i].log,
        rows |-> [n \in LogFiles |-> DataRows(Appended(done[i], n))],
        ledger0 |-> done[i].disk0[RunLog],
        complete |-> TRUE ] : i \in 1..Len(done) }

Skipped(e) == e.outcome = "skipped_already_uploaded" /\ ~e.invoked

Candidates == { i \in 1..Len(verified.lines) : verified.lines[i].status = "ok" }

KeysOfRows(file) ==
    { << file.lines[i].f[6], file.lines[i].f[7] >> :
        i \in { j \in 1..Len(file.lines) : file.lines[j].f # run_fields } }

\* ------------------------------------------------------------------ claims

\* C1: once the ledger holds a success row for an idempotency key, every later
\* run that meets an ok candidate with that key appends a
\* skipped_already_uploaded row for it and does not invoke the upload.
C1_SkipOnceSucceeded ==
    \A v \in RunViews : \A i \in 1..Len(v.log) :
        v.log[i].key \in SuccessKeysIn(v.ledger0)
        => /\ Skipped(v.log[i])
           /\ Len(v.rows[RunLog]) >= i
           /\ v.rows[RunLog][i].f[12] = "skipped_already_uploaded"
           /\ << v.rows[RunLog][i].f[6], v.rows[RunLog][i].f[7] >> = v.log[i].key

C1_Witness ==
    \E v \in RunViews : \E i \in 1..Len(v.log) :
        /\ v.complete
        /\ v.log[i].key \in SuccessKeysIn(v.ledger0)
        /\ Skipped(v.log[i])

\* C2: under crash and re-invocation the upload returns success at most once
\* per idempotency key.
C2_AtMostOnce == \A k \in Keys : attached[k] <= 1

\* C3: within one run, after an upload returned 200 for a key, a later ok
\* candidate with the same key is skipped without an upload.
C3_DedupWithinRun ==
    \A v \in RunViews : \A i, j \in 1..Len(v.log) :
        (i < j /\ v.log[i].key = v.log[j].key /\ v.log[i].invoked /\ v.log[i].code = 200)
        => /\ Skipped(v.log[j])
           /\ v.rows[RunLog][j].f[12] = "skipped_already_uploaded"

C3_Witness ==
    \E v \in RunViews : \E i, j \in 1..Len(v.log) :
        /\ i < j /\ v.log[i].key = v.log[j].key
        /\ v.log[i].invoked /\ v.log[i].code = 200
        /\ v.ledger0.lines = <<>>
        /\ Skipped(v.log[j])

\* C4 (as amended): a run that follows a run on the same verified input whose
\* uploads all returned success skips every candidate, invokes no upload, and
\* appends as many rows to the duplicates log as there are candidates.
AllUploadsSucceeded(log) == \A i \in 1..Len(log) : log[i].invoked => log[i].code = 200

C4_SecondRunSkipsAll ==
    \A n \in 2..Len(done) :
        AllUploadsSucceeded(done[n - 1].log)
        => /\ Len(done[n].log) = Cardinality(Candidates)
           /\ \A i \in 1..Len(done[n].log) : Skipped(done[n].log[i])
           /\ \A l \in { DataRows(Appended(done[n], RunLog))[i] :
                           i \in 1..Len(DataRows(Appended(done[n], RunLog))) } :
                  l.f[12] = "skipped_already_uploaded"
           /\ Len(DataRows(Appended(done[n], RunLog))) = Cardinality(Candidates)
           /\ Len(DataRows(Appended(done[n], DupLog))) = Cardinality(Candidates)

C4_Witness ==
    /\ Len(done) >= 2
    /\ AllUploadsSucceeded(done[1].log)
    /\ Cardinality(Candidates) = MaxRows
    /\ \A i \in 1..Len(done[2].log) : Skipped(done[2].log[i])

\* C4 (as stated): after the second of two runs on the same input, starting
\* with no log files, the duplicates log holds as many rows as there are
\* candidates.
C4_DupLogCountIsCandidateCount ==
    (/\ Len(done) = 2
     /\ ~done[1].disk0[RunLog].exists
     /\ AllUploadsSucceeded(done[1].log))
    => Len(DataRows(done[2].disk1[DupLog].lines)) = Cardinality(Candidates)

\* C5: the idempotency set loaded at startup is exactly the set of keys with
\* at least one success row in the ledger, wherever that row stands; a ledger
\* file that does not exist gives the empty set.
C5_LoadedSetIsSuccessKeys ==
    \A p \in Procs : pc[p] = "loaded" =>
        /\ prior[p] = SuccessKeysIn(disk[RunLog])
        /\ (~disk[RunLog].exists => prior[p] = {})

C5_Witness ==
    \E p \in Procs :
        /\ pc[p] = "loaded"
        /\ \E i, j \in 1..Len(disk[RunLog].lines) :
              LET li == disk[RunLog].lines[i]
                  lj == disk[RunLog].lines[j]
              IN  /\ i < j
                  /\ IsSuccessRow(li)
                  /\ lj.f[12] = "error"
                  /\ << li.f[6], li.f[7] >> = << lj.f[6], lj.f[7] >>
                  /\ << li.f[6], li.f[7] >> \in prior[p]
        /\ KeysOfRows(disk[RunLog]) # prior[p]

\* C6 (as amended): a key without a success row in the ledger when a run
\* starts is uploaded by that run at the first ok candidate that carries it,
\* and at every later one as long as no upload for it has returned 200.
SucceededBefore(log, i) ==
    \E j \in 1..(i - 1) : log[j].key = log[i].key /\ log[j].code = 200

C6_FailedKeyIsReprocessed ==
    \A v \in RunViews : \A i \in 1..Len(v.log) :
        (v.log[i].key \notin SuccessKeysIn(v.ledger0) /\ ~SucceededBefore(v.log, i))
        => v.log[i].invoked

C6_Witness ==
    \E v \in RunViews : \E i \in 1..Len(v.log) :
        /\ v.log[i].key \in KeysOfRows(v.ledger0)
        /\ v.log[i].key \notin SuccessKeysIn(v.ledger0)
        /\ v.log[i].invoked

\* C6 (as stated): whenever the run after one that left a key with
\* non-success rows only meets an ok candidate with that key, it invokes the
\* upload for it.
C6_EveryCandidateOfFailedKeyUploaded ==
    \A v \in RunViews : \A i \in 1..Len(v.log) :
        (/\ v.log[i].key \in KeysOfRows(v.ledger0)
         /\ v.log[i].key \notin SuccessKeysIn(v.ledger0))
        => v.log[i].invoked

\* C7 (as amended): an upload failure is not retried within a run: every
\* candidate row leads to at most one upload invocation, and after a non-200
\* response the run goes on to the following rows.
C7_NoRetryOfCandidate ==
    \A v \in RunViews : \A i, j \in 1..Len(v.log) :
        i < j => v.log[i].idx < v.log[j].idx

C7_Witness ==
    \E v \in RunViews : \E i, j \in 1..Len(v.log) :
        /\ i < j
        /\ v.log[i].invoked /\ v.log[i].code # 200
        /\ v.log[j].invoked

\* C7 (as stated): after a non-200 response for a key the upload is not
\* invoked again for that key in the same run.
C7_NoSecondUploadForKey ==
    \A v \in RunViews : \A i, j \in 1..Len(v.log) :
        (i < j /\ v.log[i].key = v.log[j].key /\ v.log[i].invoked /\ v.log[i].code # 200)
        => ~v.log[j].invoked

\* C8: the recorded outcome follows from the response's status code alone:
\* 200 is success, 404 is file_missing, any other code is error; and the
\* recorded status_code is the response's code.
C8_OutcomeFromStatusCode ==
    \A v \in RunViews : \A i \in 1..Len(v.log) :
        v.log[i].invoked =>
            LET row == v.rows[RunLog][i].f
                code == v.log[i].code
            IN  /\ code = 200 => row[12] = "success" /\ row[9] = "200"
                /\ code = 404 => row[12] = "file_missing" /\ row[9] = "404"
                /\ code \notin {200, 404} => row[12] = "error"
                /\ code = 500 => row[9] = "500"

C8_Witness ==
    \E v \in RunViews :
        /\ v.complete
        /\ { v.log[i].code : i \in 1..Len(v.log) } \in SUBSET {200, 404, 500}
        /\ Cardinality({ v.log[i].code : i \in 1..Len(v.log) }) = MaxRows

\* C9 (as amended): the rows a run appends to the errors-only log are exactly
\* the file_missing and error rows it appends to the main ledger, in order.
IsFailure(l) == l.f[12] \in {"file_missing", "error"}

C9_ErrorsLogIsFailedRows ==
    \A v \in RunViews : v.rows[ErrLog] = SelectSeq(v.rows[RunLog], IsFailure)

C9_Witness ==
    \E v \in RunViews :
        /\ v.complete
        /\ v.rows[ErrLog] # <<>>
        /\ Len(v.rows[ErrLog]) < Len(v.rows[RunLog])

\* C9 (as stated): after a run the errors-only log holds exactly the rows with
\* an outcome other than success that the run appended to the main ledger.
C9_ErrorsLogIsNonSuccessRows ==
    \A v \in RunViews :
        v.complete =>
            v.rows[ErrLog] = SelectSeq(v.rows[RunLog], LAMBDA l : l.f[12] # "success")

\* C10: the ledger is append-only across runs: the ledger before a run is a
\* prefix of the ledger after it and of every later ledger.
C10_LedgerAppendOnly ==
    \A n \in 1..Len(done) :
        /\ IsPrefix(done[n].disk0[RunLog].lines, done[n].disk1[RunLog].lines)
        /\ IsPrefix(done[n].disk1[RunLog].lines, disk[RunLog].lines)
        /\ \A m \in n..Len(done) :
              IsPrefix(done[n].disk0[RunLog].lines, done[m].disk1[RunLog].lines)

C10_Witness ==
    \E n \in 1..Len(done) :
        /\ Len(done[n].disk0[RunLog].lines) > 1
        /\ Len(done[n].disk1[RunLog].lines) > Len(done[n].disk0[RunLog].lines)

\* The success rows of a ledger that carry the key k.
SuccessRowsFor(file, k) ==
    SelectSeq(LinesOf(file),
              LAMBDA l : IsSuccessRow(l) /\ << l.f[6], l.f[7] >> = k)

\* C11: two runs that overlap can both upload one key with success, each
\* having loaded its idempotency set before the other's success was in the
\* ledger, and the ledger then ends with two success rows for that key; runs
\* that do not overlap never do: a key with two successful uploads means two
\* runs overlapped, and once every run has returned the ledger holds one
\* success row per successful upload.
C11_DoubleSuccessNeedsOverlap ==
    /\ \A k \in Keys : attached[k] >= 2 => overlap
    /\ NoneActive =>
         \A k \in Keys : Len(SuccessRowsFor(disk[RunLog], k)) = attached[k]

C11_Witness ==
    /\ NoneActive
    /\ overlap
    /\ \E k \in Keys :
          /\ attached[k] = 2
          /\ Len(SuccessRowsFor(disk[RunLog], k)) = 2
          /\ \A i \in 1..Len(done) :
                /\ k \notin SuccessKeysIn(done[i].disk0[RunLog])
                /\ \E j \in 1..Len(done[i].log) :
                      done[i].log[j].key = k /\ done[i].log[j].code = 200

\* C12: an invocation that finds the verified-records file absent aborts before
\* any work: it invokes no upload, and it leaves the ledger, the errors log and
\* the duplicates log as they were (none created, nothing appended), and no
\* writer is opened.
C12_AbortTouchesNothing ==
    [][ (~verified.exists /\ started' # started)
        => /\ attached' = attached
           /\ disk' = disk
           /\ wbuf' = wbuf
           /\ pc' = pc ]_vars

C12_Witness ==
    /\ ~verified.exists
    /\ NoneActive
    /\ Len(done) = 1
    /\ started = 2
    /\ disk[RunLog].exists
    /\ disk = done[1].disk1

\* The last line of the ledger is a record cut short by a kill.
TruncatedTail(file) ==
    /\ file.exists
    /\ file.lines # <<>>
    /\ ~file.lines[Len(file.lines)].nl

\* The header row of the file is whole, only records were cut.
HeaderIntact(file) ==
    /\ file.exists
    /\ file.lines # <<>>
    /\ Head(file.lines) = HeaderLine

\* The keys a completed run wrote success records for.
SuccessKeysWritten(d) ==
    { d.log[i].key : i \in { j \in 1..Len(d.log) : d.log[j].outcome = "success" } }

\* C13: a ledger whose last record was truncated by a kill is scanned to the
\* end; the truncated record contributes no key, and every complete success
\* record contributes its key, those that completed runs appended after the
\* truncated record included.
C13_TruncatedTailTolerated ==
    HeaderIntact(disk[RunLog]) =>
        /\ TruncatedTail(disk[RunLog]) =>
              load_prior_successes(disk[RunLog])
                  = load_prior_successes(File(SubSeq(disk[RunLog].lines, 1,
                                                     Len(disk[RunLog].lines) - 1)))
        /\ NoneActive =>
              \A i \in 1..Len(done) :
                  SuccessKeysWritten(done[i]) \subseteq load_prior_successes(disk[RunLog])

\* The join keys of the mapping set.
MappingKeySet ==
    { << mapping[j].legacy_txnid_norm, mapping[j].legacy_entity_type >> :
        j \in 1..Len(mapping) }

CountStatus(rows, status) ==
    Cardinality({ i \in 1..Len(rows) : rows[i].status = status })

\* C14: the verifier emits one verified record per inventory row, in inventory
\* order; the record is ok iff (legacy_txnid_norm, legacy_entity_type) is a key
\* of the mapping set, otherwise it is missing_mapping with empty
\* qbo_entity_type and qbo_entity_id; the ok and missing_mapping counts add up
\* to the number of inventory rows.
C14_OneVerifiedRecordPerInventoryRow ==
    verified.exists =>
        /\ Len(verified.lines) = Len(inventory)
        /\ \A i \in 1..Len(inventory) :
              LET out == verified.lines[i]
                  row == inventory[i]
              IN  /\ out.legacy_txnid_norm = row.legacy_txnid_norm
                  /\ out.legacy_entity_type = row.legacy_entity_type
                  /\ out.raw_legacy_id = row.raw_legacy_id
                  /\ out.file_name = row.file_name
                  /\ out.file_path = row.file_path
                  /\ out.status \in {"ok", "missing_mapping"}
                  /\ out.status = "ok"
                       <=> << row.legacy_txnid_norm, row.legacy_entity_type >>
                              \in MappingKeySet
                  /\ out.status = "missing_mapping"
                       => out.qbo_entity_type = "" /\ out.qbo_entity_id = ""
        /\ CountStatus(verified.lines, "ok")
             + CountStatus(verified.lines, "missing_mapping") = Len(inventory)

C14_Witness ==
    /\ verified.exists
    /\ Len(inventory) = 2
    /\ \E i, j \in 1..Len(verified.lines) :
          /\ i < j
          /\ verified.lines[i].status = "missing_mapping"
          /\ verified.lines[j].status = "ok"
          /\ verified.lines[i].legacy_txnid_norm = verified.lines[j].legacy_txnid_norm

\* The verified rows a run leaves out: those whose status is not ok.
NotOkRows ==
    { verified.lines[i] : i \in { j \in 1..Len(verified.lines) :
                                     verified.lines[j].status # "ok" } }

\* The written record l was made from the verified row r.
RecordOf(l, r) ==
    /\ Len(l.f) >= 8
    /\ l.f[2] = r.legacy_txnid_norm
    /\ l.f[3] = r.legacy_entity_type
    /\ l.f[7] = r.file_name
    /\ l.f[8] = r.file_path

\* Every line written so far to the file n, on disk or still in a buffer.
WrittenLines(n) ==
    { disk[n].lines[i] : i \in 1..Len(disk[n].lines) }
    \cup UNION { { wbuf[p][n][i] : i \in 1..Len(wbuf[p][n]) } : p \in Procs }

\* C15: only verified rows with status ok are reconciled: a row with another
\* status gets no upload and no row in the ledger, the errors log or the
\* duplicates log, and it does not count as a candidate in the summary.
C15_OnlyOkRowsReconciled ==
    /\ \A v \in RunViews :
          /\ \A i \in 1..Len(v.log) : v.log[i].idx \in Candidates
          /\ v.complete => Len(v.rows[RunLog]) = Cardinality(Candidates)
    /\ \A r \in NotOkRows :
          /\ attached[IdKey(r)] = 0
          /\ \A n \in LogFiles : \A l \in WrittenLines(n) : ~RecordOf(l, r)
    /\ \A p \in Procs : count[p].total <= Cardinality(Candidates)
    /\ Len(done) > 0 => summary.total = Cardinality(Candidates)

C15_Witness ==
    /\ NoneActive
    /\ Len(done) = 1
    /\ Len(verified.lines) = 2
    /\ verified.lines[1].status = "missing_mapping"
    /\ verified.lines[2].status = "ok"
    /\ summary.total = 1
    /\ Len(DataRows(disk[RunLog].lines)) = 1

\* C16 (as stated): the normalizer is idempotent: normalising a normalised id
\* gives the same id.
C16_Idempotent == Len(norm_ids) >= 2 => norm_ids[2] = norm_ids[1]

\* A normalised id that normalising changes again.
BeginsWithPrefixOrSpace(s) ==
    \/ s # <<>> /\ s[1] = " "
    \/ Len(s) >= 2 /\ s[1] = "8" /\ s[2] = "0"

\* C16 (amended): normalising a normalised id gives the same id exactly when
\* the normalised id does not begin with "80" or with white space; one prefix
\* is removed per application, so "8080A" gives "80A", and that gives "A".
C16_IdempotentUnlessPrefixLeft ==
    Len(norm_ids) >= 2 =>
        (norm_ids[2] = norm_ids[1] <=> ~BeginsWithPrefixOrSpace(norm_ids[1]))

C16_Witness ==
    /\ Len(norm_ids) = 2
    /\ raw_id = << " ", "8", "0", "a" >>
    /\ norm_ids[1] = << "A" >>
    /\ norm_ids[2] = << "A" >>

IsSpace(c) == c = " "

\* The value without its surrounding white space: the part of s between the
\* first and the last character that is not white space.
Trimmed(s) ==
    LET inner == { i \in 1..Len(s) : ~IsSpace(s[i]) }
    IN  IF inner = {} THEN <<>>
        ELSE SubSeq(s, CHOOSE i \in inner : \A j \in inner : i <= j,
                       CHOOSE i \in inner : \A j \in inner : j <= i)

\* t is s in upper case.
IsUpperOf(t, s) ==
    /\ Len(t) = Len(s)
    /\ \A i \in 1..Len(s) : t[i] = (IF s[i] = "a" THEN "A" ELSE s[i])

\* C17: normalize gives the empty string for a null or empty input; otherwise
\* the input with the surrounding white space trimmed, then one leading "80"
\* (two characters) removed if the trimmed value starts with it, then in upper
\* case; so a prefixed id and its unprefixed lower-case form get the same
\* normal form.
C17_NormalizeRules ==
    Len(norm_ids) >= 1 =>
        LET out == norm_ids[1]
            t == Trimmed(raw_id)
        IN  /\ raw_id \in {NoId, <<>>} => out = <<>>
            /\ raw_id # NoId =>
                  /\ (Len(t) >= 2 /\ t[1] = "8" /\ t[2] = "0")
                        => IsUpperOf(out, SubSeq(t, 3, Len(t)))
                  /\ ~(Len(t) >= 2 /\ t[1] = "8" /\ t[2] = "0")
                        => IsUpperOf(out, t)
            /\ raw_id \in { << "8", "0", "A", "a" >>, << "a", "a" >>,
                            << "A", "A" >>, << " ", "a", "A", " " >> }
                  => out = << "A", "A" >>
            /\ raw_id = << "8", "0", "8", "0" >> => out = << "8", "0" >>

C17_Witness ==
    /\ Len(norm_ids) >= 1
    /\ raw_id = << " ", "8", "0", "a" >>
    /\ norm_ids[1] = << "A" >>

\* The events of a run cover the ok candidates, one event each, in input order.
OneEventPerCandidate(log) ==
    /\ Len(log) = Cardinality(Candidates)
    /\ { log[i].idx : i \in 1..Len(log) } = Candidates
    /\ \A i, j \in 1..Len(log) : i < j => log[i].idx < log[j].idx

CountEvents(log, outcomes) ==
    Cardinality({ i \in 1..Len(log) : log[i].outcome \in outcomes })

\* C18: a completed run appends one ledger row per ok candidate, in input
\* order, whatever the upload outcomes; each candidate is either skipped or
\* uploaded once, and total = uploaded + skipped + failed in the summary.
C18_OneLedgerRowPerCandidate ==
    /\ \A n \in 1..Len(done) :
          LET log == done[n].log
              rows == DataRows(Appended(done[n], RunLog))
          IN  /\ OneEventPerCandidate(log)
              /\ Len(rows) = Len(log)
              /\ \A i \in 1..Len(log) :
                    /\ RecordOf(rows[i], verified.lines[log[i].idx])
                    /\ rows[i].f[12] = log[i].outcome
                    /\ Skipped(log[i]) \/ log[i].invoked
    /\ Len(done) > 0 =>
          LET log == done[Len(done)].log
          IN  /\ summary.total = Cardinality(Candidates)
              /\ summary.uploaded = CountEvents(log, {"success"})
              /\ summary.failed = CountEvents(log, {"file_missing", "error"})
              /\ summary.skipped = CountEvents(log, {"skipped_already_uploaded"})
              /\ summary.total
                    = summary.uploaded + summary.skipped + summary.failed

C18_Witness ==
    /\ NoneActive
    /\ Len(done) = 1
    /\ Len(done[1].log) = 2
    /\ done[1].log[1].code = 404
    /\ done[1].log[2].code = 500
    /\ summary = [total |-> 2, uploaded |-> 0, skipped |-> 0, failed |-> 2]
    /\ Len(DataRows(disk[RunLog].lines)) = 2

IsSkipRow(l) == l.f[12] = "skipped_already_uploaded"

\* C19: a candidate whose key is in the idempotency set is recorded with the
\* outcome skipped_already_uploaded and empty status_code, error and
\* intuit_tid; the same record goes to the ledger and to the duplicates log
\* and to no other log, and the duplicates log gets no row of another outcome.
C19_SkipRecordInLedgerAndDupLog ==
    \A v \in RunViews :
        /\ \A i \in 1..Len(v.log) :
              (v.log[i].key \in SuccessKeysIn(v.ledger0) \/ SucceededBefore(v.log, i))
              => /\ Skipped(v.log[i])
                 /\ IsSkipRow(v.rows[RunLog][i])
                 /\ v.rows[RunLog][i].f[9] = ""
                 /\ v.rows[RunLog][i].f[10] = ""
                 /\ v.rows[RunLog][i].f[11] = ""
                 /\ RecordOf(v.rows[RunLog][i], verified.lines[v.log[i].idx])
        /\ v.rows[DupLog] = SelectSeq(v.rows[RunLog], IsSkipRow)
        /\ SelectSeq(v.rows[ErrLog], IsSkipRow) = <<>>

C19_Witness ==
    \E v \in RunViews :
        /\ v.complete
        /\ Len(v.log) = 2
        /\ ~Skipped(v.log[1])
        /\ Skipped(v.log[2])
        /\ Len(v.rows[DupLog]) = 1
        /\ v.rows[DupLog][1] = v.rows[RunLog][2]
        /\ v.rows[ErrLog] = <<>>

HeaderRows(file) == SelectSeq(file.lines, LAMBDA l : l.f = run_fields)

\* C20: after any sequence of runs that starts without a ledger file, the
\* ledger holds exactly one header row, and it is the first row of the file.
C20_OneHeaderRowFirst ==
    (NoneActive /\ Len(done) > 0) =>
        /\ disk[RunLog].exists
        /\ disk[RunLog].lines # <<>>
        /\ Head(disk[RunLog].lines) = HeaderLine
        /\ Len(HeaderRows(disk[RunLog])) = 1

\* The idempotency key a ledger record carries.
RowKey(l) == << l.f[6], l.f[7] >>

\* C21: in a ledger produced by non-overlapping completed runs from an empty
\* ledger, every skipped_already_uploaded row comes after a success row of
\* the same idempotency key, and no key has more than one success row.
C21_SkipOnlyAfterSuccess ==
    LET rows == disk[RunLog].lines
    IN  /\ \A i \in 1..Len(rows) :
              IsSkipRow(rows[i])
              => \E j \in 1..(i - 1) :
                    IsSuccessRow(rows[j]) /\ RowKey(rows[j]) = RowKey(rows[i])
        /\ \A i, j \in 1..Len(rows) :
              (i < j /\ IsSuccessRow(rows[i]) /\ IsSuccessRow(rows[j]))
              => RowKey(rows[i]) # RowKey(rows[j])

C21_Witness ==
    /\ NoneActive
    /\ Len(done) = 2
    /\ \E i, j, k \in 1..Len(disk[RunLog].lines) :
          /\ i < j /\ j < k
          /\ disk[RunLog].lines[i].f[12] = "error"
          /\ IsSuccessRow(disk[RunLog].lines[j])
          /\ IsSkipRow(disk[RunLog].lines[k])
          /\ RowKey(disk[RunLog].lines[i]) = RowKey(disk[RunLog].lines[k])
          /\ RowKey(disk[RunLog].lines[j]) = RowKey(disk[RunLog].lines[k])

\* Every ok candidate's key has a success row in the ledger.
AllSucceeded ==
    \A i \in Candidates : IdKey(verified.lines[i]) \in SuccessKeysIn(disk[RunLog])

\* The events a step adds to the log of the run of process p.
NewEvents(p) ==
    IF runLog'[p] = <<>> THEN <<>>
    ELSE SubSeq(runLog'[p], Len(runLog[p]) + 1, Len(runLog'[p]))

\* The records a step adds to the ledger.
NewLedgerRows ==
    DataRows(SubSeq(disk'[RunLog].lines, Len(disk[RunLog].lines) + 1,
                    Len(disk'[RunLog].lines)))

\* C22: re-invoking the pipeline converges.  With a fixed verified input,
\* non-overlapping completed runs and an upload that for each key eventually
\* returns 200, eventually every ok candidate key has a success row in the
\* ledger; from then on no run invokes the upload, and the runs append
\* skipped_already_uploaded rows only.
C22_Converges ==
    /\ <>AllSucceeded
    /\ [][ AllSucceeded =>
             /\ AllSucceeded'
             /\ attached' = attached
             /\ \A p \in Procs : \A i \in 1..Len(NewEvents(p)) :
                   Skipped(NewEvents(p)[i])
             /\ \A i \in 1..Len(NewLedgerRows) : IsSkipRow(NewLedgerRows[i]) ]_vars

C22_Witness ==
    /\ NoneActive
    /\ AllSucceeded
    /\ Len(done) = 2
    /\ Len(done[1].log) = 2
    /\ done[1].log[1].code = 500
    /\ done[1].log[2].code = 200
    /\ Len(done[2].log) = 2
    /\ \A i \in 1..2 : Skipped(done[2].log[i])
    /\ Len(DataRows(Appended(done[2], RunLog))) = 2

============================================================================
